---- MODULE Spec2Model ----
(***************************************************************************)
(* Confluence signal scoring engine of Ztockly-Scalper: the indicator      *)
(* library (indicators.py) and compute_scalp_signal (signals.py).          *)
(*                                                                         *)
(* Prices and volumes of the bars are integers.  Every float the engine    *)
(* derives from them is an exact rational [n, d] with d > 0; d = 0 is      *)
(* not-a-number, and every comparison with a not-a-number is false, as in  *)
(* IEEE arithmetic.  Optional values are <<>> (None) or <<x>>.             *)
(***************************************************************************)
EXTENDS Integers, Sequences, FiniteSets, TLC

VARIABLES symbol, ohlcv, rsi_fast, rsi_slow, macd_hist, mode,
          allow_opening, allow_midday, allow_power, lookback_bars,
          session_of_last, pc, locals, result

\* app.py: the session state of the page (last_alert_ts, alerts), the
\* cooldown slider, the clock as last read, what the latest rerun of the page
\* was triggered by, and the record of the captures made by scans since the
\* alerts were last cleared or the cooldown last moved
VARIABLES last_alert_ts, alerts, cooldown_minutes, now, event, captures

inputs == <<symbol, ohlcv, rsi_fast, rsi_slow, macd_hist, mode,
            allow_opening, allow_midday, allow_power, lookback_bars,
            session_of_last>>
app == <<last_alert_ts, alerts, cooldown_minutes, now, event, captures>>
vars == <<inputs, pc, locals, result, app>>

----------------------------------------------------------------------------
(* Float arithmetic *)

R(x) == [n |-> x, d |-> 1]
NaN == [n |-> 0, d |-> 0]
isfinite(x) == x.d # 0

Lt(a, b) == a.d # 0 /\ b.d # 0 /\ a.n * b.d < b.n * a.d
Gt(a, b) == Lt(b, a)
Le(a, b) == a.d # 0 /\ b.d # 0 /\ a.n * b.d <= b.n * a.d
Ge(a, b) == Le(b, a)
Eq(a, b) == a.d # 0 /\ b.d # 0 /\ a.n * b.d = b.n * a.d

Add(a, b) == IF a.d = 0 \/ b.d = 0 THEN NaN
             ELSE [n |-> a.n * b.d + b.n * a.d, d |-> a.d * b.d]
Sub(a, b) == IF a.d = 0 \/ b.d = 0 THEN NaN
             ELSE [n |-> a.n * b.d - b.n * a.d, d |-> a.d * b.d]
Mul(a, b) == IF a.d = 0 \/ b.d = 0 THEN NaN
             ELSE [n |-> a.n * b.n, d |-> a.d * b.d]

\* Python's built-in max(a, b) and min(a, b): the first argument unless the
\* second compares strictly beyond it, so a not-a-number first argument is
\* returned and a not-a-number second argument is ignored.
PyMax(a, b) == IF Gt(b, a) THEN b ELSE a
PyMin(a, b) == IF Lt(b, a) THEN b ELSE a

None == << >>
Some(x) == <<x>>

Abs(x) == IF x < 0 THEN -x ELSE x
Max2(a, b) == IF a >= b THEN a ELSE b
Min2(a, b) == IF a <= b THEN a ELSE b

----------------------------------------------------------------------------
(* Series helpers (pandas) *)

\* series.tail(k) for k >= 1
tail(s, k) == IF Len(s) <= k THEN s ELSE SubSeq(s, Len(s) - k + 1, Len(s))

RECURSIVE SeqMin(_, _, _)
SeqMin(s, lo, hi) == IF lo = hi THEN s[lo] ELSE Min2(s[hi], SeqMin(s, lo, hi - 1))
RECURSIVE SeqMax(_, _, _)
SeqMax(s, lo, hi) == IF lo = hi THEN s[lo] ELSE Max2(s[hi], SeqMax(s, lo, hi - 1))

----------------------------------------------------------------------------
(* indicators.py *)

RECURSIVE cumsum_pv(_, _)
cumsum_pv(df, i) ==
    IF i = 0 THEN 0
    ELSE cumsum_pv(df, i - 1) + (df[i].high + df[i].low + df[i].close) * df[i].volume
RECURSIVE cumsum_volume(_, _)
cumsum_volume(df, i) ==
    IF i = 0 THEN 0 ELSE cumsum_volume(df, i - 1) + df[i].volume

\* vwap(df) at row i: cumulative tp*volume over cumulative volume, where
\* tp = (high + low + close) / 3 and a zero cumulative volume gives NaN.
vwap(df, i) == [n |-> cumsum_pv(df, i), d |-> 3 * cumsum_volume(df, i)]

\* true range of row i; the first row has no previous close and the row
\* maximum skips the two undefined terms
true_range(df, i) ==
    IF i = 1 THEN Abs(df[i].high - df[i].low)
    ELSE Max2(Abs(df[i].high - df[i].low),
              Max2(Abs(df[i].high - df[i - 1].close),
                   Abs(df[i].low - df[i - 1].close)))

RECURSIVE sum_tr(_, _, _)
sum_tr(df, lo, hi) ==
    IF lo > hi THEN 0 ELSE true_range(df, hi) + sum_tr(df, lo, hi - 1)

\* atr(df, period) at row i: rolling mean with min_periods = period
atr(df, period, i) ==
    IF i < period THEN NaN
    ELSE [n |-> sum_tr(df, i - period + 1, i), d |-> period]

\* rows flagged by rolling_swing_lows(series, left, right), 1-based
rolling_swing_lows(s, left, right) ==
    {i \in (left + 1)..(Len(s) - right) : s[i] = SeqMin(s, i - left, i + right)}
rolling_swing_highs(s, left, right) ==
    {i \in (left + 1)..(Len(s) - right) : s[i] = SeqMax(s, i - left, i + right)}

----------------------------------------------------------------------------
(* signals.py *)

Sessions == {"OPENING", "MIDDAY", "POWER", "OFF"}

SignalResult(sym, bias, setup_score, reason, entry, stop, target_1r, target_2r, last_price, timestamp, session) ==
    [symbol |-> sym, bias |-> bias, setup_score |-> setup_score,
     reason |-> reason, entry |-> entry, stop |-> stop,
     target_1r |-> target_1r, target_2r |-> target_2r,
     last_price |-> last_price, timestamp |-> timestamp, session |-> session]

\* A reason text: its fixed wording, the session it names, and for the
\* factor lists the matched factors (and both scores for the summary).
Reason(text, session, long, short, lp, sp) ==
    [text |-> text, session |-> session, long |-> long, short |-> short,
     long_points |-> lp, short_points |-> sp]
Plain(text) == Reason(text, "", << >>, << >>, 0, 0)

PRESETS ==
    [x \in {"Fast scalp", "Cleaner signals"} |->
        IF x = "Fast scalp"
        THEN [min_actionable_score |-> 70, vol_multiplier |-> [n |-> 115, d |-> 100],
              require_volume |-> 0, require_macd_turn |-> 1,
              require_vwap_event |-> 1, require_rsi_event |-> 1]
        ELSE [min_actionable_score |-> 80, vol_multiplier |-> [n |-> 135, d |-> 100],
              require_volume |-> 1, require_macd_turn |-> 1,
              require_vwap_event |-> 1, require_rsi_event |-> 1]]

PRESETS_get_fast(m) == IF m \in DOMAIN PRESETS THEN PRESETS[m] ELSE PRESETS["Fast scalp"]
\* PRESETS.get(mode, PRESETS["Cleaner signals"])
PRESETS_get(m) == IF m \in DOMAIN PRESETS THEN PRESETS[m] ELSE PRESETS["Cleaner signals"]

\* ohlcv.copy().tail(int(lookback_bars))
df == tail(ohlcv, lookback_bars)
L == Len(df)

\* series.reindex(df.index).ffill() at row i: the sample at the latest row
\* of the window, at or before i, whose timestamp carries a defined sample
reindex_ffill(series, i) ==
    LET known == {j \in 1..i : df[j].ts \in DOMAIN series /\ isfinite(series[df[j].ts])}
    IN  IF known = {} THEN NaN
        ELSE series[df[CHOOSE j \in known : \A k \in known : k <= j].ts]
\* aligned.shift(k).iloc[-1]
aligned_last(series, k) == IF L > k THEN reindex_ffill(series, L - k) ELSE NaN

\* close.shift(k).iloc[-1] and vwap.shift(k).iloc[-1]
close_last(k) == IF L > k THEN R(df[L - k].close) ELSE NaN
vwap_last(k) == IF L > k THEN vwap(df, L - k) ELSE NaN

last_ts == df[L].ts
\* the external session classifier's answer for the last bar's timestamp
classify_session(ts) == session_of_last
session == classify_session(last_ts)

allowed_midday_by_power ==
    \/ session = "OPENING" /\ allow_opening
    \/ session = "MIDDAY" /\ allow_power
    \/ session = "POWER" /\ allow_power
allowed ==
    \/ session = "OPENING" /\ allow_opening
    \/ session = "MIDDAY" /\ allow_midday
    \/ session = "POWER" /\ allow_power

last_price == R(df[L].close)

\* Events.  c and v hold close.shift(k).iloc[-1] and vwap.shift(k).iloc[-1]
\* at index k + 1; r0, r1 and h0, h1, h2 are the aligned RSI-fast and MACD
\* histogram shifted by 0, 1 and 2.
was_below_vwap(c, v) == Lt(c[4], v[4]) \/ Lt(c[6], v[6])
reclaim_vwap(c, v) == Gt(c[1], v[1]) /\ Le(c[2], v[2])
was_above_vwap(c, v) == Gt(c[4], v[4]) \/ Gt(c[6], v[6])
reject_vwap(c, v) == Lt(c[1], v[1]) /\ Ge(c[2], v[2])

rsi_snap(r0, r1) ==
    \/ Ge(r0, R(30)) /\ Lt(r1, R(30))
    \/ Ge(r0, R(25)) /\ Lt(r1, R(25))
rsi_downshift(r0, r1) ==
    \/ Le(r0, R(70)) /\ Gt(r1, R(70))
    \/ Le(r0, R(75)) /\ Gt(r1, R(75))

macd_turn_up(h0, h1, h2) == Gt(h0, h1) /\ Gt(h1, h2)
macd_turn_down(h0, h1, h2) == Lt(h0, h1) /\ Lt(h1, h2)

\* k-th smallest (1-based) volume among rows lo..hi of the window
kth_volume(lo, hi, k) ==
    CHOOSE x \in {df[j].volume : j \in lo..hi} :
        /\ Cardinality({j \in lo..hi : df[j].volume < x}) < k
        /\ Cardinality({j \in lo..hi : df[j].volume <= x}) >= k

\* vol.rolling(30, min_periods=10).median().iloc[-1]
vol_med ==
    LET lo == Max2(1, L - 29)
        cnt == L - lo + 1
    IN  IF cnt < 10 THEN NaN
        ELSE IF cnt % 2 = 1 THEN R(kth_volume(lo, L, (cnt + 1) \div 2))
        ELSE [n |-> kth_volume(lo, L, cnt \div 2) + kth_volume(lo, L, cnt \div 2 + 1),
              d |-> 2]

vol_ok(cfg, f) ==
    IF isfinite(f.vol_med) THEN Ge(f.vol_last, Mul(cfg.vol_multiplier, f.vol_med))
    ELSE FALSE

lows == [i \in 1..L |-> df[i].low]
highs == [i \in 1..L |-> df[i].high]

\* df["low"].tail(12).min() and df["high"].tail(12).max()
low_tail12_min == SeqMin(lows, Max2(1, L - 11), L)
high_tail12_max == SeqMax(highs, Max2(1, L - 11), L)

swing_low_mask == rolling_swing_lows(lows, 3, 3)
recent_swing_low ==
    LET recent_swing_lows == swing_low_mask
    IN  IF recent_swing_lows # {}
        THEN R(lows[CHOOSE i \in recent_swing_lows : \A j \in recent_swing_lows : j <= i])
        ELSE R(low_tail12_min)

swing_high_mask == rolling_swing_highs(highs, 3, 3)
recent_swing_high ==
    LET recent_swing_highs == swing_high_mask
    IN  IF recent_swing_highs # {}
        THEN R(highs[CHOOSE i \in recent_swing_highs : \A j \in recent_swing_highs : j <= i])
        ELSE R(high_tail12_max)

atr14 == atr(df, 14, L)

higher_low == lows[L] > low_tail12_min
lower_high == highs[L] < high_tail12_max

\* The values the function holds in its local variables once the events and
\* the swing levels are computed (lines 95-123 and the two micro-structure
\* tests of lines 137 and 150)
Locals ==
    LET c == <<close_last(0), close_last(1), NaN, close_last(3), NaN, close_last(5)>>
        v == <<vwap_last(0), vwap_last(1), NaN, vwap_last(3), NaN, vwap_last(5)>>
        r0 == aligned_last(rsi_fast, 0)
        r1 == aligned_last(rsi_fast, 1)
        h0 == aligned_last(macd_hist, 0)
        h1 == aligned_last(macd_hist, 1)
        h2 == aligned_last(macd_hist, 2)
    IN  [last_price |-> last_price,
         was_below_vwap |-> was_below_vwap(c, v), reclaim_vwap |-> reclaim_vwap(c, v),
         was_above_vwap |-> was_above_vwap(c, v), reject_vwap |-> reject_vwap(c, v),
         rsi5 |-> r0, rsi14 |-> aligned_last(rsi_slow, 0),
         rsi_snap |-> rsi_snap(r0, r1), rsi_downshift |-> rsi_downshift(r0, r1),
         macd_turn_up |-> macd_turn_up(h0, h1, h2),
         macd_turn_down |-> macd_turn_down(h0, h1, h2),
         vol_last |-> R(df[L].volume), vol_med |-> vol_med,
         recent_swing_low |-> recent_swing_low, recent_swing_high |-> recent_swing_high,
         atr14 |-> atr14,
         higher_low |-> higher_low, lower_high |-> lower_high]
Unassigned == << >>

\* Score components
vwap_long_was_below(f) == f.was_below_vwap
vwap_long(f) == f.was_below_vwap /\ f.reclaim_vwap
vwap_short(f) == f.was_above_vwap /\ f.reject_vwap
rsi_long_le(f) == f.rsi_snap /\ Le(f.rsi14, R(60))
rsi_long(f) == f.rsi_snap /\ Lt(f.rsi14, R(60))
rsi_short(f) == f.rsi_downshift /\ Gt(f.rsi14, R(40))

W_VWAP == 35
W_RSI == 20
W_MACD == 20
W_VOL == 15
W_MICRO == 10

Pts(b, w) == IF b THEN w ELSE 0
Lbl(b, s) == IF b THEN <<s>> ELSE << >>

long_points(cfg, f) ==
    Pts(vwap_long(f), W_VWAP) + Pts(rsi_long(f), W_RSI) + Pts(f.macd_turn_up, W_MACD)
    + Pts(vol_ok(cfg, f), W_VOL) + Pts(f.higher_low, W_MICRO)
long_reasons(cfg, f) ==
    Lbl(vwap_long(f), "VWAP reclaim") \o Lbl(rsi_long(f), "RSI-5 snapback (RSI-14 ok)")
    \o Lbl(f.macd_turn_up, "MACD hist turning up") \o Lbl(vol_ok(cfg, f), "Volume confirmation")
    \o Lbl(f.higher_low, "Higher-low micro structure")

short_points(cfg, f) ==
    Pts(vwap_short(f), W_VWAP) + Pts(rsi_short(f), W_RSI) + Pts(f.macd_turn_down, W_MACD)
    + Pts(vol_ok(cfg, f), W_VOL) + Pts(f.lower_high, W_MICRO)
short_reasons(cfg, f) ==
    Lbl(vwap_short(f), "VWAP rejection") \o Lbl(rsi_short(f), "RSI-5 downshift (RSI-14 ok)")
    \o Lbl(f.macd_turn_down, "MACD hist turning down") \o Lbl(vol_ok(cfg, f), "Volume confirmation")
    \o Lbl(f.lower_high, "Lower-high micro structure")

first4(s) == IF Len(s) <= 4 THEN s ELSE SubSeq(s, 1, 4)

\* The mandatory checks, in the order the code examines them
vwap_event(f) == vwap_long(f) \/ vwap_short(f)
rsi_event_scored(f) == rsi_long(f) \/ rsi_short(f)
rsi_event(f) == f.rsi_snap \/ f.rsi_downshift
macd_event(f) == f.macd_turn_up \/ f.macd_turn_down

RISK_FLOOR == [n |-> 1, d |-> 100]
ATR_MULT_full == [n |-> 10, d |-> 10]
ATR_MULT == [n |-> 8, d |-> 10]

long_stop(f) ==
    PyMin(f.recent_swing_low, Sub(f.last_price, Mul(PyMax(f.atr14, R(0)), ATR_MULT)))
short_stop(f) ==
    PyMax(f.recent_swing_high, Add(f.last_price, Mul(PyMax(f.atr14, R(0)), ATR_MULT)))

\* int(max(long_points, short_points)) of the NEUTRAL results
neutral_score_sum(lp, sp) == lp + sp
neutral_score(lp, sp) == Max2(lp, sp)

choose_long_strict(lp, sp, min_score) == lp > min_score /\ lp > sp
choose_long(lp, sp, min_score) == lp >= min_score /\ lp > sp
choose_short_typo(lp, sp, min_score) == lp < min_score /\ sp > lp
choose_short(lp, sp, min_score) == sp >= min_score /\ sp > lp

MIN_BARS_low == 60 - 10
MIN_BARS == 60

\* the two returns that precede the events
not_enough_data == Len(ohlcv) < MIN_BARS
early_return == not_enough_data \/ ~allowed

\* compute_scalp_signal with cfg the preset looked up for mode and f the local
\* variables of lines 95-123
compute_scalp_signal(cfg, f) ==
    IF not_enough_data
    THEN SignalResult(symbol, "NEUTRAL", 0, Plain("Not enough data"),
                      None, None, None, None, None, None, "OFF")
    ELSE IF ~allowed
    THEN SignalResult(symbol, "NEUTRAL", 0,
                      Reason("Filtered by time-of-day", session, << >>, << >>, 0, 0),
                      None, None, None, None, Some(last_price), Some(last_ts), session)
    ELSE
    LET lp == long_points(cfg, f)
        sp == short_points(cfg, f)
        Neutral(reason) ==
            SignalResult(symbol, "NEUTRAL", neutral_score(lp, sp), reason,
                         None, None, None, None, Some(f.last_price), Some(last_ts), session)
        min_score == cfg.min_actionable_score
    IN
    IF cfg.require_vwap_event = 1 /\ ~vwap_event(f)
    THEN Neutral(Plain("No VWAP reclaim/rejection event"))
    ELSE IF cfg.require_rsi_event = 1 /\ ~rsi_event(f)
    THEN Neutral(Plain("No RSI-5 snap/downshift event"))
    ELSE IF cfg.require_macd_turn = 1 /\ ~macd_event(f)
    THEN Neutral(Plain("No MACD histogram turn event"))
    ELSE IF cfg.require_volume = 1 /\ ~vol_ok(cfg, f)
    THEN Neutral(Plain("No volume confirmation"))
    ELSE IF choose_long(lp, sp, min_score)
    THEN LET entry == f.last_price
             stop == long_stop(f)
             risk == PyMax(Sub(entry, stop), RISK_FLOOR)
         IN  SignalResult(symbol, "LONG", Min2(100, lp),
                          Reason("factors", "", first4(long_reasons(cfg, f)), << >>, 0, 0),
                          Some(entry), Some(stop), Some(Add(entry, risk)),
                          Some(Add(entry, Mul(R(2), risk))),
                          Some(f.last_price), Some(last_ts), session)
    ELSE IF choose_short(lp, sp, min_score)
    THEN LET entry == f.last_price
             stop == short_stop(f)
             risk == PyMax(Sub(stop, entry), RISK_FLOOR)
         IN  SignalResult(symbol, "SHORT", Min2(100, sp),
                          Reason("factors", "", << >>, first4(short_reasons(cfg, f)), 0, 0),
                          Some(entry), Some(stop), Some(Sub(entry, risk)),
                          Some(Sub(entry, Mul(R(2), risk))),
                          Some(f.last_price), Some(last_ts), session)
    ELSE Neutral(Reason("LongScore/ShortScore", "", long_reasons(cfg, f),
                        short_reasons(cfg, f), lp, sp))

----------------------------------------------------------------------------
(* app.py: in-app alerts and their cooldown *)

DEFAULT_COOLDOWN == 7
DEFAULT_MAX_ALERTS == 60
DEFAULT_ALERT_THRESHOLD == 80

\* st.session_state.last_alert_ts: a dict from symbol to the time of its
\* last alert; dict.get gives None for a symbol without an entry
dict_get(d, k) == IF k \in DOMAIN d THEN Some(d[k]) ELSE None
dict_set(d, k, v) == [x \in DOMAIN d \cup {k} |-> IF x = k THEN v ELSE d[x]]
EmptyDict == << >>

can_alert_minutes(last, sym, now_ts, cooldown_min) ==
    IF dict_get(last, sym) = None THEN TRUE
    ELSE now_ts - dict_get(last, sym)[1] >= cooldown_min
can_alert(last, sym, now_ts, cooldown_min) ==
    IF dict_get(last, sym) = None THEN TRUE
    ELSE now_ts - dict_get(last, sym)[1] >= cooldown_min * 60

\* add_in_app_alert(row): the card is stamped with its own reading of the
\* clock, put first, and the list cut to max_alerts_kept.  The other fields
\* of the card are copies of the row and of the sidebar.
add_in_app_alert(list, row, ts_unix, max_alerts_kept) ==
    LET alert == [ts_unix |-> ts_unix, symbol |-> row.Symbol, bias |-> row.Bias, score |-> row.Score]
        grown == <<alert>> \o list
    IN  IF Len(grown) <= max_alerts_kept THEN grown ELSE SubSeq(grown, 1, max_alerts_kept)

\* the capture loop of lines 254-270 from result i on; st holds the session
\* state and the record of captures, env the sidebar values and the clock
RECURSIVE capture_loop(_, _, _, _)
capture_loop(results, i, st, env) ==
    IF i > Len(results) THEN st
    ELSE LET r == results[i]
         IN  IF /\ r.bias \in {"LONG", "SHORT"}
                /\ r.setup_score >= env.alert_threshold
                /\ can_alert(st.last_alert_ts, r.symbol, env.now, env.cooldown_minutes)
             THEN capture_loop(results, i + 1,
                      [last_alert_ts |-> dict_set(st.last_alert_ts, r.symbol, env.now),
                       alerts |-> add_in_app_alert(st.alerts, [Symbol |-> r.symbol, Bias |-> r.bias, Score |-> r.setup_score], env.ts_unix, env.max_alerts_kept),
                       captures |-> Append(st.captures, [symbol |-> r.symbol, t |-> env.now, bias |-> r.bias, score |-> r.setup_score, threshold |-> env.alert_threshold])],
                      env)
             ELSE capture_loop(results, i + 1, st, env)

TimeUnit == 30
MaxTicks == 2
MaxTests == 1
\* the clock: seconds, read in steps of TimeUnit, never running backwards
Times == {k * TimeUnit : k \in 0..MaxTicks}
Symbols == {"AAPL", "NVDA"}
Cooldowns == {1, 2}
\* what the engine can return for a symbol: NEUTRAL with any score, LONG or
\* SHORT with a score at or above the preset's minimum; one result of each
\* bias, on either side of the alert threshold
Outcomes == {<<"NEUTRAL", 90>>, <<"LONG", 70>>, <<"SHORT", 90>>}
Rows == {[symbol |-> y, bias |-> o[1], setup_score |-> o[2]] : y \in Symbols, o \in Outcomes}
\* the results of one scan: one row, or two (a watchlist of two symbols, or
\* one symbol listed twice)
RowCounts == {1, 2}
ResultLists == UNION {[1..k -> Rows] : k \in RowCounts}
\* the alert threshold slider, left at the minimum score of "Cleaner signals"
AlertThresholds == {DEFAULT_ALERT_THRESHOLD}

AppStart(cooldowns) ==
    /\ last_alert_ts = EmptyDict
    /\ alerts = << >>
    /\ cooldown_minutes \in cooldowns
    /\ now = 0
    /\ event = "start"
    /\ captures = << >>

\* A rerun of the page that scans (the Scan button, or auto-refresh) at clock
\* reading t; the results of scan_watchlist and the sidebar values are
\* inputs.  Without results, or with "Capture alerts in-app" off, nothing is
\* captured.  A card is stamped with the clock reading of its scan.
Scan ==
    /\ \E t \in Times :
          /\ t >= now
          /\ now' = t
          /\ \/ UNCHANGED <<last_alert_ts, alerts, captures>>
             \/ \E results \in ResultLists, alert_threshold \in AlertThresholds :
                   LET env == [now |-> t, ts_unix |-> t, alert_threshold |-> alert_threshold,
                               cooldown_minutes |-> cooldown_minutes, max_alerts_kept |-> DEFAULT_MAX_ALERTS]
                       st0 == [last_alert_ts |-> last_alert_ts, alerts |-> alerts, captures |-> captures]
                       st == capture_loop(results, 1, st0, env)
                   IN  /\ last_alert_ts' = st.last_alert_ts
                       /\ alerts' = st.alerts
                       /\ captures' = st.captures
    /\ event' = "scan"
    /\ UNCHANGED <<cooldown_minutes, inputs, pc, locals, result>>

\* the "Clear alerts" button
ClearAlerts ==
    /\ alerts' = << >>
    /\ last_alert_ts' = EmptyDict
    /\ captures' = << >>
    /\ event' = "clear"
    /\ UNCHANGED <<cooldown_minutes, now, inputs, pc, locals, result>>

\* the "Capture test alert" button
CaptureTestAlert ==
    /\ Cardinality({i \in DOMAIN alerts : alerts[i].symbol = "TEST"}) < MaxTests
    /\ alerts' = add_in_app_alert(alerts, [Symbol |-> "TEST", Bias |-> "LONG", Score |-> 95], now, DEFAULT_MAX_ALERTS)
    /\ event' = "test"
    /\ UNCHANGED <<last_alert_ts, cooldown_minutes, now, captures, inputs, pc, locals, result>>

\* the cooldown slider is moved
SetCooldown ==
    /\ \E c \in Cooldowns : c # cooldown_minutes /\ cooldown_minutes' = c
    /\ captures' = << >>
    /\ event' = "cooldown"
    /\ UNCHANGED <<last_alert_ts, alerts, now, inputs, pc, locals, result>>

NextAlerts == Scan \/ ClearAlerts \/ CaptureTestAlert \/ SetCooldown

----------------------------------------------------------------------------
(* Inputs *)

BasePrice == 100
PriceStep == 2
Wick == 3
TailLen == 3
ExtraBars == 1
DEFAULT_LOOKBACK == 160

\* A well-formed bar: low <= open, close <= high, volume >= 0
Candle(c, up, dn, v) ==
    [open |-> c, high |-> c + up, low |-> c - dn, close |-> c, volume |-> v]
WickKinds == {<<0, 0>>, <<Wick, 0>>, <<0, Wick>>}
Closes == {BasePrice - PriceStep, BasePrice, BasePrice + PriceStep}

Wicked(c, v) == {Candle(c, w[1], w[2], v) : w \in WickKinds}
BaseCandles(vols) == UNION {Wicked(BasePrice, v) : v \in vols}
LastCandles(vols) == UNION {Wicked(c, v) : c \in Closes, v \in vols}

\* n bars with ascending timestamps 1..n: n - TailLen copies of one base
\* candle, TailLen - 1 candles of the base volume, and a last candle
Stamp(c, t) == [ts |-> t, open |-> c.open, high |-> c.high, low |-> c.low,
                close |-> c.close, volume |-> c.volume]
MkBars(n, base, mid, last) ==
    [i \in 1..n |-> Stamp(IF i <= n - TailLen THEN base
                          ELSE IF i < n THEN mid[i - (n - TailLen)]
                          ELSE last, i)]
\* midcloses: the closes of the flat candles, of the base volume, that lie
\* between the base candles and the last bar
BarSeries(ns, bases, midcloses, lasts) ==
    UNION {{MkBars(n, b, m, l) :
                n \in ns,
                m \in [1..(TailLen - 1) -> {Candle(c, 0, 0, b.volume) : c \in midcloses}],
                l \in lasts} : b \in bases}
FlatMid == {BasePrice}
MovingMid == Closes

\* An oscillator series with samples on (some of) the last three timestamps
\* of an n-bar series; a NaN entry of trip is a timestamp without a sample
MkSeries(n, trip) ==
    [t \in {n - 3 + k : k \in {j \in 1..3 : isfinite(trip[j])}} |-> trip[t - n + 3]]
Trip(a, b, c) == <<a, b, c>>

RsiFastAll ==
    {Trip(NaN, R(28), R(35)), Trip(NaN, R(20), R(27)), Trip(R(28), NaN, R(30)),
     Trip(NaN, R(50), R(50)), Trip(NaN, R(72), R(65)), Trip(NaN, R(80), R(73)),
     Trip(NaN, R(30), R(31)), Trip(NaN, NaN, NaN)}
RsiSlowAll ==
    {Trip(NaN, NaN, R(50)), Trip(NaN, NaN, R(60)), Trip(NaN, NaN, R(40)), Trip(NaN, NaN, NaN)}
MacdAll ==
    {Trip(R(0), R(1), R(2)), Trip(R(2), R(1), R(0)), Trip(R(1), R(1), R(1)),
     Trip(R(0), NaN, R(2))}

Modes == {"Fast scalp", "Cleaner signals", "Swing"}

InitWith(bars, lookbacks, rsifast, rsislow, macd, modes, sessions, flags) ==
    /\ symbol = "SYM"
    /\ ohlcv \in bars
    /\ rsi_fast \in {MkSeries(Len(ohlcv), t) : t \in rsifast}
    /\ rsi_slow \in {MkSeries(Len(ohlcv), t) : t \in rsislow}
    /\ macd_hist \in {MkSeries(Len(ohlcv), t) : t \in macd}
    /\ mode \in modes
    /\ lookback_bars \in lookbacks
    /\ session_of_last \in sessions
    /\ \E f \in flags : allow_opening = f[1] /\ allow_midday = f[2] /\ allow_power = f[3]
    /\ pc = "ready"
    /\ locals = Unassigned
    /\ result = None
    /\ AppStart({DEFAULT_COOLDOWN})

\* One call of compute_scalp_signal on the inputs: the preset lookup, the
\* local variables it assigns unless it returns before them, and its result
Call ==
    /\ pc = "ready"
    /\ LET cfg == PRESETS_get(mode)
           f == IF early_return THEN Unassigned ELSE Locals
       IN  /\ locals' = f
           /\ result' = compute_scalp_signal(cfg, f)
    /\ pc' = "returned"
    /\ UNCHANGED <<inputs, app>>

Next == Call

AllFlags == BOOLEAN \X BOOLEAN \X BOOLEAN
DefaultFlags == {<<TRUE, FALSE, TRUE>>}

\* Scoring: every oscillator pattern against windows that cross VWAP either
\* way or not at all, in an allowed session
Init ==
    InitWith(BarSeries({MIN_BARS}, BaseCandles({100}), FlatMid, LastCandles({100, 125, 200})),
             {DEFAULT_LOOKBACK}, RsiFastAll, RsiSlowAll, MacdAll,
             {"Fast scalp", "Cleaner signals"}, {"OPENING"}, DefaultFlags)
Spec == Init /\ [][Next]_vars

RsiFastFew == {Trip(NaN, R(28), R(35)), Trip(NaN, R(72), R(65)), Trip(NaN, R(50), R(50))}
RsiSlowFew == {Trip(NaN, NaN, R(50))}
MacdFew == {Trip(R(0), R(1), R(2)), Trip(R(2), R(1), R(0)), Trip(R(1), R(1), R(1))}

\* Gating: every bar count around the minimum, every session, flag setting
\* and preset name, against flat and VWAP-crossing windows
InitGate ==
    InitWith(BarSeries({MIN_BARS - 1, MIN_BARS, MIN_BARS + ExtraBars},
                       {Candle(BasePrice, 0, 0, 0), Candle(BasePrice, 0, 0, 100),
                        Candle(BasePrice, Wick, 0, 100)},
                       FlatMid,
                       UNION {{Candle(BasePrice, 0, 0, v), Candle(BasePrice + PriceStep, 0, 0, v)} : v \in {0, 100, 125}}),
             {9, DEFAULT_LOOKBACK}, RsiFastFew, RsiSlowFew, MacdFew,
             Modes, Sessions, AllFlags)
SpecGate == InitGate /\ [][Next]_vars

\* Levels: moving windows of every length around the ATR period, with the
\* oscillators firing for one side
InitLevels ==
    InitWith(BarSeries({MIN_BARS}, BaseCandles({20}), MovingMid, LastCandles({20, 200})),
             {9, 14, DEFAULT_LOOKBACK},
             {Trip(NaN, R(28), R(35)), Trip(NaN, R(72), R(65))}, RsiSlowFew,
             {Trip(R(0), R(1), R(2)), Trip(R(2), R(1), R(0))},
             {"Fast scalp", "Cleaner signals"}, {"OPENING", "POWER"}, DefaultFlags)
SpecLevels == InitLevels /\ [][Next]_vars

RampLen == 20
RampJump == 40
RampVol == 20

DipBack == 5

\* n bars whose closes run to BasePrice over the last RampLen bars before the
\* last one, falling (dir = 1) or rising (dir = -1) by PriceStep a bar, after
\* a flat stretch; the last bar jumps away from the end of the run.  With
\* dip > 0 the bar dip places before the end of the run has wicks that reach
\* beyond its three neighbours on either side: a swing low and a swing high.
DipWick == 3 * PriceStep + 1
MkRamp(n, dir, dip, last) ==
    [i \in 1..n |->
        Stamp(IF i < n
              THEN LET w == IF dip > 0 /\ i = n - 1 - dip THEN DipWick ELSE 0
                   IN  Candle(BasePrice + dir * PriceStep * Min2(RampLen, n - 1 - i), w, w, RampVol)
              ELSE last, i)]
RampLasts ==
    UNION {Wicked(BasePrice + j, v) : j \in {-RampJump, RampJump}, v \in {RampVol, 10 * RampVol}}
RampSeries(ns) ==
    {MkRamp(n, dir, dip, l) : n \in ns, dir \in {-1, 1}, dip \in {0, DipBack}, l \in RampLasts}

\* Level derivation: the moving windows of InitLevels, and runs with one swing
\* point or none, in windows shorter and longer than the run
InitRamp ==
    InitWith(RampSeries({MIN_BARS}), {5, 14, DEFAULT_LOOKBACK},
             {Trip(NaN, R(28), R(35)), Trip(NaN, R(72), R(65))}, RsiSlowFew,
             {Trip(R(0), R(1), R(2)), Trip(R(2), R(1), R(0))},
             {"Fast scalp", "Cleaner signals"}, {"OPENING"}, DefaultFlags)
InitDerive == InitLevels \/ InitRamp
SpecDerive == InitDerive /\ [][Next]_vars

\* The page with its alerts: the engine's own variables stay as they start
EngineIdle ==
    /\ symbol = "SYM"
    /\ ohlcv = << >>
    /\ rsi_fast = << >> /\ rsi_slow = << >> /\ macd_hist = << >>
    /\ mode = "Cleaner signals"
    /\ lookback_bars = DEFAULT_LOOKBACK
    /\ session_of_last = "OFF"
    /\ allow_opening = TRUE /\ allow_midday = FALSE /\ allow_power = TRUE
    /\ pc = "ready"
    /\ locals = Unassigned
    /\ result = None
InitAlerts == EngineIdle /\ AppStart(Cooldowns)
SpecAlerts == InitAlerts /\ [][NextAlerts]_vars

----------------------------------------------------------------------------
(* Properties *)

Returned == pc = "returned"
Enough == Len(ohlcv) >= 60
lastbar == ohlcv[Len(ohlcv)]
cfg_of_mode == PRESETS_get(mode)
NoLevels(r) == r.entry = None /\ r.stop = None /\ r.target_1r = None /\ r.target_2r = None
HasLevels(r) == r.entry # None /\ r.stop # None /\ r.target_1r # None /\ r.target_2r # None

\* the session of the last bar has its flag off, or is OFF
SessionFiltered ==
    \/ session_of_last = "OPENING" /\ ~allow_opening
    \/ session_of_last = "MIDDAY" /\ ~allow_midday
    \/ session_of_last = "POWER" /\ ~allow_power
    \/ session_of_last = "OFF"

\* C1: a result whose bias is not NEUTRAL has entry, stop, target_1r and
\* target_2r, with stop < entry < target_1r < target_2r for LONG and
\* target_2r < target_1r < entry < stop for SHORT.
C1_LevelsOrdered ==
    (Returned /\ result.bias # "NEUTRAL") =>
        /\ HasLevels(result)
        /\ result.bias = "LONG" =>
              /\ Lt(result.stop[1], result.entry[1])
              /\ Lt(result.entry[1], result.target_1r[1])
              /\ Lt(result.target_1r[1], result.target_2r[1])
        /\ result.bias = "SHORT" =>
              /\ Lt(result.target_2r[1], result.target_1r[1])
              /\ Lt(result.target_1r[1], result.entry[1])
              /\ Lt(result.entry[1], result.stop[1])

\* C2: the score of every returned result is an integer in 0..100.
C2_ScoreRange == Returned => result.setup_score \in 0..100
C2_Witness == Returned /\ result.bias = "NEUTRAL" /\ result.setup_score >= 80

\* C3: with at least 60 bars, a last bar whose session is filtered gives
\* NEUTRAL, score 0, no levels, a reason naming the session, and the last
\* close and last timestamp, whatever the factors are.
C3_SessionGate ==
    (Returned /\ Enough /\ SessionFiltered) =>
        /\ result.bias = "NEUTRAL"
        /\ result.setup_score = 0
        /\ NoLevels(result)
        /\ result.reason.text = "Filtered by time-of-day"
        /\ result.reason.session = session_of_last
        /\ result.last_price = Some(R(lastbar.close))
        /\ result.timestamp = Some(lastbar.ts)
C3_Witness ==
    /\ Returned /\ Enough /\ session_of_last = "MIDDAY" /\ ~allow_midday
    /\ long_points(cfg_of_mode, Locals) >= 90

\* the claims' own reading of the result: the path it came from
PastGates == result.reason.text \in {"factors", "LongScore/ShortScore"}
MandatoryTexts ==
    <<"No VWAP reclaim/rejection event", "No RSI-5 snap/downshift event",
      "No MACD histogram turn event", "No volume confirmation">>
LP == long_points(cfg_of_mode, locals)
SP == short_points(cfg_of_mode, locals)

\* C4: once the session gate and the mandatory checks pass, the result is
\* LONG iff long-points >= min_score and long-points > short-points, SHORT
\* iff short-points >= min_score and short-points > long-points, NEUTRAL
\* otherwise; equal points give NEUTRAL and the two sides exclude each other.
C4_Decision ==
    (Returned /\ Enough /\ ~SessionFiltered /\ PastGates) =>
        LET m == cfg_of_mode.min_actionable_score
            long == LP >= m /\ LP > SP
            short == SP >= m /\ SP > LP
        IN  /\ result.bias = "LONG" <=> long
            /\ result.bias = "SHORT" <=> short
            /\ result.bias = "NEUTRAL" <=> (~long /\ ~short)
            /\ LP = SP => result.bias = "NEUTRAL"
            /\ ~(long /\ short)
C4_Witness ==
    /\ Returned /\ Enough /\ ~SessionFiltered /\ PastGates
    /\ result.bias = "SHORT" /\ LP > 0

\* the first mandatory check of the preset, in the order VWAP, RSI, MACD,
\* volume, that fired in neither direction (0 when there is none)
FirstMissing(cfg) ==
    IF cfg.require_vwap_event = 1 /\ ~(vwap_long(locals) \/ vwap_short(locals)) THEN 1
    ELSE IF cfg.require_rsi_event = 1 /\ ~(locals.rsi_snap \/ locals.rsi_downshift) THEN 2
    ELSE IF cfg.require_macd_turn = 1 /\ ~(locals.macd_turn_up \/ locals.macd_turn_down) THEN 3
    ELSE IF cfg.require_volume = 1 /\ ~vol_ok(cfg, locals) THEN 4
    ELSE 0

\* C5: after the session gate, the first mandatory check (VWAP, RSI, MACD,
\* volume, in that order) that fired in neither direction gives NEUTRAL with
\* score max(long-points, short-points), no levels and a reason naming that
\* check; a check that fired in one direction only is satisfied.
C5_MandatoryOrder ==
    (Returned /\ Enough /\ ~SessionFiltered) =>
        LET k == FirstMissing(cfg_of_mode)
        IN  IF k = 0 THEN PastGates
            ELSE /\ result.bias = "NEUTRAL"
                 /\ result.setup_score = Max2(LP, SP)
                 /\ NoLevels(result)
                 /\ result.reason.text = MandatoryTexts[k]
C5_Witness ==
    /\ Returned /\ Enough /\ ~SessionFiltered
    /\ FirstMissing(cfg_of_mode) = 2
    /\ ~(locals.macd_turn_up \/ locals.macd_turn_down)
    /\ LP # SP

\* the bias for a preset that differs from the chosen one only in its
\* minimum actionable score
BiasAt(m) == compute_scalp_signal([cfg_of_mode EXCEPT !.min_actionable_score = m], locals).bias
Thresholds == {30, 50, 70, 80}

\* C6: for presets differing only in the minimum actionable score m1 < m2,
\* LONG (SHORT) under m2 implies LONG (SHORT) under m1.
C6_Monotone ==
    Returned =>
        LET bias == [m \in Thresholds |-> BiasAt(m)]
        IN  \A m1, m2 \in Thresholds :
                m1 < m2 =>
                    /\ bias[m2] = "LONG" => bias[m1] = "LONG"
                    /\ bias[m2] = "SHORT" => bias[m1] = "SHORT"
C6_Witness ==
    /\ Returned /\ BiasAt(70) = "LONG" /\ BiasAt(80) = "NEUTRAL"
    /\ result.bias = BiasAt(cfg_of_mode.min_actionable_score)

ClaimedCleaner ==
    [min_actionable_score |-> 80, vol_multiplier |-> [n |-> 135, d |-> 100],
     require_volume |-> 1, require_macd_turn |-> 1,
     require_vwap_event |-> 1, require_rsi_event |-> 1]
ClaimedFast ==
    [min_actionable_score |-> 70, vol_multiplier |-> [n |-> 115, d |-> 100],
     require_volume |-> 0, require_macd_turn |-> 1,
     require_vwap_event |-> 1, require_rsi_event |-> 1]

\* C7: a preset name other than the two registered ones gives the result of
\* "Cleaner signals" (80, 1.35, all four checks mandatory); "Fast scalp" is
\* 70, 1.15 with volume confirmation optional.
C7_PresetFallback ==
    Returned =>
        /\ mode \notin {"Fast scalp", "Cleaner signals"} => result = compute_scalp_signal(ClaimedCleaner, locals)
        /\ mode = "Cleaner signals" => result = compute_scalp_signal(ClaimedCleaner, locals)
        /\ mode = "Fast scalp" => result = compute_scalp_signal(ClaimedFast, locals)
C7_Witness ==
    /\ Returned /\ Enough /\ ~SessionFiltered
    /\ mode \notin {"Fast scalp", "Cleaner signals"}
    /\ compute_scalp_signal(ClaimedFast, locals).bias = "LONG" /\ result.bias = "NEUTRAL"

\* C8: fewer than 60 bars give NEUTRAL, score 0, reason "Not enough data"
\* and no entry, stop, targets, last price or timestamp, whatever the preset,
\* the session flags and lookback_bars are.
C8_InsufficientData ==
    (Returned /\ Len(ohlcv) < 60) =>
        /\ result.bias = "NEUTRAL"
        /\ result.setup_score = 0
        /\ result.reason.text = "Not enough data"
        /\ NoLevels(result)
        /\ result.last_price = None
        /\ result.timestamp = None
C8_Witness ==
    /\ Returned /\ Len(ohlcv) = 59 /\ ~SessionFiltered
    /\ long_points(cfg_of_mode, Locals) >= 70

FlatBars ==
    \A i \in 1..Len(ohlcv) :
        /\ ohlcv[i].open = ohlcv[1].open /\ ohlcv[i].high = ohlcv[1].open
        /\ ohlcv[i].low = ohlcv[1].open /\ ohlcv[i].close = ohlcv[1].open
        /\ ohlcv[i].volume = ohlcv[1].volume
\* oscillators as they are on flat prices: no sample moves
FlatOscillators ==
    /\ \A t, u \in DOMAIN rsi_fast : rsi_fast[t] = rsi_fast[u]
    /\ \A t, u \in DOMAIN macd_hist : macd_hist[t] = macd_hist[u]

\* C9: 60 bars of one price and one volume (0 included), under either preset
\* and any session flags, give NEUTRAL with score 0; stated for the inputs
\* most favourable to it, those whose oscillator series are flat as well.
C9_FlatIsZero ==
    (Returned /\ Len(ohlcv) = 60 /\ FlatBars /\ FlatOscillators) =>
        result.bias = "NEUTRAL" /\ result.setup_score = 0

B(x) == IF x THEN 1 ELSE 0
\* the factor sums as the claim states them
ClaimedLong(rsi) ==
    35 * B(vwap_long(locals)) + 20 * B(rsi) + 20 * B(locals.macd_turn_up)
    + 15 * B(vol_ok(cfg_of_mode, locals)) + 10 * B(locals.higher_low)
ClaimedShort(rsi) ==
    35 * B(vwap_short(locals)) + 20 * B(rsi) + 20 * B(locals.macd_turn_down)
    + 15 * B(vol_ok(cfg_of_mode, locals)) + 10 * B(locals.lower_high)
ScoreIs(l, s) ==
    /\ result.bias = "NEUTRAL" => result.setup_score = Max2(l, s)
    /\ result.bias = "LONG" => result.setup_score = Min2(100, l)
    /\ result.bias = "SHORT" => result.setup_score = Min2(100, s)
FourLong ==
    vwap_long(locals) /\ locals.rsi_snap /\ locals.macd_turn_up /\ vol_ok(cfg_of_mode, locals)

\* C10 as stated: the score is built from 35 VWAP + 20 RSI + 20 MACD +
\* 15 volume + 10 micro-structure points, the RSI points depending on the
\* RSI-fast crossing alone, so the four long events under "Cleaner signals"
\* in an allowed session give LONG with score >= 90.
C10_AsStated ==
    (Returned /\ Enough /\ ~SessionFiltered) =>
        /\ ScoreIs(ClaimedLong(locals.rsi_snap), ClaimedShort(locals.rsi_downshift))
        /\ (mode = "Cleaner signals" /\ FourLong) =>
               result.bias = "LONG" /\ result.setup_score >= 90

\* C10 amended: the 20 RSI points also need RSI-slow < 60 (long) or
\* RSI-slow > 40 (short); with the four long events and RSI-slow < 60 the
\* result under "Cleaner signals" is LONG with score >= 90.
C10_Weighted ==
    (Returned /\ Enough /\ ~SessionFiltered) =>
        /\ ScoreIs(ClaimedLong(locals.rsi_snap /\ Lt(locals.rsi14, R(60))),
                   ClaimedShort(locals.rsi_downshift /\ Gt(locals.rsi14, R(40))))
        /\ (mode = "Cleaner signals" /\ FourLong /\ Lt(locals.rsi14, R(60))) =>
               result.bias = "LONG" /\ result.setup_score >= 90
C10_Witness ==
    /\ Returned /\ Enough /\ ~SessionFiltered
    /\ mode = "Cleaner signals" /\ FourLong /\ Lt(locals.rsi14, R(60))
    /\ result.bias = "LONG" /\ result.setup_score = 90

----------------------------------------------------------------------------
(* Level derivation as the claim words it, from the bars of the window *)

ClaimedSwingLows == {i \in 4..(L - 3) : \A j \in (i - 3)..(i + 3) : df[i].low <= df[j].low}
ClaimedSwingHighs == {i \in 4..(L - 3) : \A j \in (i - 3)..(i + 3) : df[i].high >= df[j].high}
Trailing12 == {j \in 1..L : j > L - 12}
\* S: the most recent detected swing low, else the minimum low of the
\* trailing 12 bars; and its mirror
ClaimedS_low ==
    LET det == ClaimedSwingLows
    IN  IF det # {} THEN df[CHOOSE i \in det : \A j \in det : j <= i].low
        ELSE CHOOSE x \in {df[j].low : j \in Trailing12} : \A j \in Trailing12 : x <= df[j].low
ClaimedS_high ==
    LET det == ClaimedSwingHighs
    IN  IF det # {} THEN df[CHOOSE i \in det : \A j \in det : j <= i].high
        ELSE CHOOSE x \in {df[j].high : j \in Trailing12} : \A j \in Trailing12 : x >= df[j].high
ClaimedTR(i) ==
    LET terms == {Abs(df[i].high - df[i].low)} \cup
                 (IF i > 1 THEN {Abs(df[i].high - df[i - 1].close), Abs(df[i].low - df[i - 1].close)}
                  ELSE {})
    IN  CHOOSE x \in terms : \A y \in terms : x >= y
RECURSIVE SumTR(_)
SumTR(rows) ==
    IF rows = {} THEN 0
    ELSE LET i == CHOOSE r \in rows : TRUE IN ClaimedTR(i) + SumTR(rows \ {i})
\* ATR14 at the last bar: the mean true range of the last 14 bars of the
\* window, undefined in a window of fewer than 14 bars
ClaimedATR14 == IF L < 14 THEN NaN ELSE [n |-> SumTR({j \in 1..L : j > L - 14}), d |-> 14]
ClaimedFactor == [n |-> 8, d |-> 10]
ClaimedFloor == [n |-> 1, d |-> 100]
\* min and max of two levels, of which an undefined ATR level does not count
MinLevel(s, x) == IF Lt(x, s) THEN x ELSE s
MaxLevel(s, x) == IF Gt(x, s) THEN x ELSE s
Distances(d1, d2, dist) ==
    LET risk == MaxLevel(ClaimedFloor, dist)
    IN  /\ Eq(d1, risk)
        /\ Eq(d2, Mul(R(2), risk))
        /\ Ge(dist, ClaimedFloor) => Eq(d1, dist) /\ Eq(d2, Mul(R(2), dist))

\* C11: every LONG result has entry = last close, stop = min(S, entry -
\* 0.8 * ATR14) with S the most recent detected swing low of the window or,
\* when none is detected, the minimum low of the trailing 12 bars, and
\* targets at max(entry - stop, 0.01) and twice that above the entry; SHORT
\* is the mirror with the swing high, entry + 0.8 * ATR14 and targets below
\* the entry; so the target distances are 1x and 2x the entry-to-stop
\* distance whenever that distance is at least 0.01.  An undefined ATR14
\* leaves the swing level as the stop.
C11_LevelDerivation ==
    (Returned /\ result.bias # "NEUTRAL") =>
        LET entry == result.entry[1]
            stop == result.stop[1]
            t1 == result.target_1r[1]
            t2 == result.target_2r[1]
            band == Mul(ClaimedFactor, ClaimedATR14)
        IN  /\ HasLevels(result)
            /\ Eq(entry, R(df[L].close))
            /\ result.bias = "LONG" =>
                  /\ Eq(stop, MinLevel(R(ClaimedS_low), Sub(entry, band)))
                  /\ Distances(Sub(t1, entry), Sub(t2, entry), Sub(entry, stop))
            /\ result.bias = "SHORT" =>
                  /\ Eq(stop, MaxLevel(R(ClaimedS_high), Add(entry, band)))
                  /\ Distances(Sub(entry, t1), Sub(entry, t2), Sub(stop, entry))
\* a LONG whose window holds no swing low, so that the trailing minimum is
\* the swing level, and whose ATR14 is defined
C11_Witness ==
    /\ Returned /\ result.bias = "LONG"
    /\ ClaimedSwingLows = {} /\ isfinite(ClaimedATR14)
    /\ Gt(Sub(result.entry[1], result.stop[1]), ClaimedFloor)

----------------------------------------------------------------------------
(* Alert cooldown *)

\* the captures the step made, and the symbols they are for
NewCaptures == SubSeq(captures', Len(captures) + 1, Len(captures'))
CapturedNow(s) == \E k \in DOMAIN NewCaptures : NewCaptures[k].symbol = s
\* what C12 says of one scan, at time now', for symbol s
ScanRule(s) ==
    IF CapturedNow(s)
    THEN /\ \A k \in DOMAIN NewCaptures :
              NewCaptures[k].symbol = s =>
                  /\ NewCaptures[k].bias \in {"LONG", "SHORT"}
                  /\ NewCaptures[k].score >= NewCaptures[k].threshold
                  /\ NewCaptures[k].t = now'
         /\ \/ s \notin DOMAIN last_alert_ts
            \/ now' - last_alert_ts[s] >= cooldown_minutes * 60
         /\ s \in DOMAIN last_alert_ts' /\ last_alert_ts'[s] = now'
    ELSE /\ s \in DOMAIN last_alert_ts' <=> s \in DOMAIN last_alert_ts
         /\ s \in DOMAIN last_alert_ts => last_alert_ts'[s] = last_alert_ts[s]
SpacedCaptures ==
    \A i, j \in DOMAIN captures :
        (i < j /\ captures[i].symbol = captures[j].symbol) =>
            captures[j].t - captures[i].t >= cooldown_minutes * 60

\* C12: with the cooldown fixed and no "Clear alerts" in between, a scan at
\* time t captures an alert for a symbol only if its result is LONG or SHORT
\* with score >= the alert threshold and the symbol has no last-alert time or
\* t - last_alert_ts[symbol] >= cooldown_minutes * 60; the capture sets
\* last_alert_ts[symbol] = t and a symbol without a capture keeps its
\* last-alert time; so two scan captures for one symbol are at least
\* cooldown_minutes * 60 seconds apart.
C12_AlertCooldown ==
    /\ [](SpacedCaptures)
    /\ [][event' = "scan" => \A s \in Symbols : ScanRule(s)]_vars
\* one symbol captured by two scans, at the first clock reading a cooldown
\* after the first capture
C12_Witness ==
    /\ Len(captures) = 2 /\ captures[1].symbol = captures[2].symbol
    /\ captures[2].t - captures[1].t < cooldown_minutes * 60 + TimeUnit
    /\ last_alert_ts[captures[2].symbol] = captures[2].t

----------------------------------------------------------------------------
(* VWAP exclusivity *)

NonVwapLong ==
    20 * B(rsi_long(locals)) + 20 * B(locals.macd_turn_up)
    + 15 * B(vol_ok(cfg_of_mode, locals)) + 10 * B(locals.higher_low)
NonVwapShort ==
    20 * B(rsi_short(locals)) + 20 * B(locals.macd_turn_down)
    + 15 * B(vol_ok(cfg_of_mode, locals)) + 10 * B(locals.lower_high)

\* C13: under the registered presets every LONG result has the VWAP reclaim
\* event (was below, and crossed above on the last bar) and every SHORT
\* result the VWAP rejection event, the other four factors giving at most 65
\* points; reclaim and rejection never fire on the same last bar, so
\* long-points and short-points are never both >= min_score, and equal
\* points at or above min_score do not occur.
C13_VwapExclusive ==
    (Returned /\ Enough /\ ~SessionFiltered) =>
        LET m == cfg_of_mode.min_actionable_score
        IN  /\ result.bias = "LONG" => locals.was_below_vwap /\ locals.reclaim_vwap
            /\ result.bias = "SHORT" => locals.was_above_vwap /\ locals.reject_vwap
            /\ NonVwapLong <= 65 /\ NonVwapShort <= 65
            /\ m \in {70, 80}
            /\ ~(locals.reclaim_vwap /\ locals.reject_vwap)
            /\ ~(LP >= m /\ SP >= m)
            /\ ~(LP = SP /\ LP >= m)
\* a LONG with the reclaim while the short side holds points of its own
C13_Witness ==
    /\ Returned /\ Enough /\ ~SessionFiltered
    /\ result.bias = "LONG" /\ locals.was_below_vwap /\ locals.reclaim_vwap
    /\ SP >= 25

====
